---- MODULE Spec2Model ----
(***************************************************************************)
(* Stock ledger of the CRM/PMS backend: the stock_movements table of one   *)
(* product, the three operations that write it (create_stock_movement,     *)
(* update_stock_movement, delete_stock_movement), the balance              *)
(* recalculation they trigger and the product aggregator that reads it.    *)
(* Quantities are integers (kg); the service uses floats but only adds,    *)
(* subtracts, compares and takes max(0.0, .).                              *)
(***************************************************************************)
EXTENDS Integers, Sequences, FiniteSets, TLC

VARIABLES movements, clock, updates, lastCall, inflight, listing,
          jobs, workers, utcnow

vars == <<movements, clock, updates, lastCall, inflight, listing,
          jobs, workers, utcnow>>

\* The stock ledger and the requests on it.
ledger == <<movements, clock, updates, lastCall, inflight>>

\* What the ledger operations leave alone.
aside == <<listing, jobs, workers, utcnow>>

(***************************************************************************)
(* Bounds of the model.                                                    *)
(***************************************************************************)
MaxMovements == 3   \* rows inserted over a run (ids and created_at are 1..MaxMovements)
MaxDate == 3        \* transaction dates are 1..MaxDate
MaxUpdates == 1     \* update_stock_movement calls that pass the not-found check
MaxJobs == 2        \* rows of profile_update_jobs (ids are 1..MaxJobs)
MaxTime == 2        \* the workers' clock runs over 0..MaxTime

Dates == 1..MaxDate

(***************************************************************************)
(* Enumerations of models/stock.py.                                        *)
(***************************************************************************)
LOCATIONS == {"addis_ababa", "sez_kenya", "nairobi_partner"}

TRANSACTION_TYPES ==
    {"Sales", "Purchase", "Inter-company transfer", "Sample", "Damage", "Stock Availability"}

UNITS == {"kg", "ton", "g", "lb", "oz", "piece", "unit"}

None == "None"      \* Python's None for the optional string fields

\* The product, TDS, partner and customer tables: the ids that exist.
KnownProducts == {"P"}
KnownTds == {"T"}
KnownPartners == {"S"}
KnownCustomers == {"K"}

\* str.lower() on the location strings the model uses.
Lower(s) ==
    CASE s = "SEZ_Kenya" -> "sez_kenya"
      [] s = "Addis_Ababa" -> "addis_ababa"
      [] s = "Nairobi_Partner" -> "nairobi_partner"
      [] OTHER -> s

Max0(x) == IF x > 0 THEN x ELSE 0

quantity_fields ==
    {"beginning_balance", "purchase_kg", "sold_kg", "purchase_direct_shipment_kg",
     "sold_direct_shipment_kg", "sample_or_damage_kg", "inter_company_transfer_kg"}

(***************************************************************************)
(* Order of a replay: (date, created_at), a missing created_at (0) taken   *)
(* as datetime.min.                                                        *)
(***************************************************************************)
min_datetime == 0

\* Mutant: an entry without created_at sorted after the others of its date.
CreatedKeyMissingLast(m) == IF m.created_at # 0 THEN m.created_at ELSE MaxDate + MaxMovements + 1

CreatedKey(m) == IF m.created_at # 0 THEN m.created_at ELSE min_datetime

\* Mutant: insertion order, the date ignored.
KeyLessByCreated(a, b) == CreatedKey(a) < CreatedKey(b)

KeyLess(a, b) ==
    \/ a.date < b.date
    \/ a.date = b.date /\ CreatedKey(a) < CreatedKey(b)

RECURSIVE SortByDateCreated(_)
SortByDateCreated(S) ==
    IF S = {} THEN <<>>
    ELSE LET first == CHOOSE m \in S : \A o \in S \ {m} : KeyLess(m, o)
         IN  <<first>> \o SortByDateCreated(S \ {first})

\* location_movements.sort(key=...): Python's sort, stable, on the list in the
\* order the store returned it.  InsertByKey puts a row after every row of
\* the sorted list whose key is not greater than its own.
RECURSIVE InsertByKey(_, _)
InsertByKey(sorted, m) ==
    IF sorted = <<>> THEN <<m>>
    ELSE IF KeyLess(m, Head(sorted)) THEN <<m>> \o sorted
    ELSE <<Head(sorted)>> \o InsertByKey(Tail(sorted), m)

RECURSIVE sort_by_key(_)
sort_by_key(fetched) ==
    IF fetched = <<>> THEN <<>>
    ELSE InsertByKey(sort_by_key(SubSeq(fetched, 1, Len(fetched) - 1)),
                     fetched[Len(fetched)])

\* No list has been fetched.
NoListing == [fetched |-> <<>>, sorted |-> <<>>, done |-> FALSE]

\* list_stock_movements(product_id=..., limit=10000): every row of the product.
list_stock_movements(rows, product_id) == {m \in rows : m.product_id = product_id}

get_stock_movement_by_id(rows, id) == {m \in rows : m.id = id}

IsTransfer(m) == m.transaction_type = "Inter-company transfer"

NetChange(m) ==
    m.purchase_kg + m.purchase_direct_shipment_kg
      - m.sold_kg - m.sold_direct_shipment_kg - m.sample_or_damage_kg

(***************************************************************************)
(* _recalculate_balances(product_id, location).  The rows are fetched      *)
(* once; the loop reads the previous entry's balance_kg from that fetch    *)
(* (the objects in memory are never updated) and writes one row per entry. *)
(***************************************************************************)
\* <<kind, movement>> for every fetched row that affects the location.
location_movements(all_movements, location) ==
    {[kind |-> "direct", m |-> m] :
        m \in {x \in all_movements : Lower(x.location) = Lower(location)}}
    \cup
    {[kind |-> "transfer_to", m |-> m] :
        m \in {x \in all_movements :
                  /\ Lower(x.location) # Lower(location)
                  /\ IsTransfer(x)
                  /\ x.transfer_to_location # None
                  /\ Lower(x.transfer_to_location) = Lower(location)}}

\* The sorted list of the loop, as <<kind, movement>> entries.
SortedEntries(all_movements, location) ==
    LET entries == location_movements(all_movements, location)
        sorted  == SortByDateCreated({e.m : e \in entries})
    IN  [i \in 1..Len(sorted) |->
            CHOOSE e \in entries : e.m = sorted[i]]

\* Mutant: every later entry starts from the first entry's balance (index 0
\* instead of i-1).
current_balance_from_first(entries, i) ==
    IF i = 1 THEN entries[i].m.beginning_balance
    ELSE entries[1].m.balance_kg

\* current_balance of entry i: its own beginning_balance for the first entry,
\* the fetched balance_kg of entry i-1 otherwise.
current_balance(entries, i) ==
    IF i = 1 THEN entries[i].m.beginning_balance
    ELSE entries[i - 1].m.balance_kg

\* Mutant: inter_company_transfer_kg subtracted from every entry recorded at
\* the location, whatever its type.
new_balance_transfer_counted(entries, i, location) ==
    LET movement == entries[i].m
        cur      == current_balance(entries, i)
    IN  IF entries[i].kind = "direct"
        THEN IF IsTransfer(movement) /\ Lower(movement.location) = Lower(location)
             THEN cur - movement.inter_company_transfer_kg
             ELSE cur + NetChange(movement) - movement.inter_company_transfer_kg
        ELSE cur + movement.inter_company_transfer_kg

new_balance(entries, i, location) ==
    LET movement == entries[i].m
        cur      == current_balance(entries, i)
    IN  IF entries[i].kind = "direct"
        THEN IF IsTransfer(movement) /\ Lower(movement.location) = Lower(location)
             THEN cur - movement.inter_company_transfer_kg
             ELSE cur + NetChange(movement)
        ELSE cur + movement.inter_company_transfer_kg

\* Mutant: the balance written without the floor at zero.
WrittenBalanceUnfloored(entries, i, location) == new_balance(entries, i, location)

\* The balance_kg the loop writes for entry i.
WrittenBalance(entries, i, location) == Max0(new_balance(entries, i, location))

_recalculate_balances(rows, product_id, location) ==
    LET entries == SortedEntries(list_stock_movements(rows, product_id), location)
        Index(m) == CHOOSE i \in 1..Len(entries) : entries[i].m.id = m.id
        Touched  == {entries[i].m.id : i \in 1..Len(entries)}
    IN  {IF m.id \in Touched
         THEN [m EXCEPT !.balance_kg = WrittenBalance(entries, Index(m), location),
                        !.beginning_balance = current_balance(entries, Index(m))]
         ELSE m : m \in rows}

(***************************************************************************)
(* create_stock_movement(body).                                            *)
(***************************************************************************)
\* Field validation of StockMovementBase (pydantic, before the service runs).
StockMovementBaseValid(body) ==
    /\ body.location \in LOCATIONS
    /\ body.transaction_type \in TRANSACTION_TYPES
    /\ body.unit \in UNITS
    /\ \A f \in quantity_fields : body[f] >= 0

\* Mutant: the location / transaction type rule left out.
CreateValueErrorNoLocationRule(body) ==
    \/ body.product_id \notin KnownProducts
    \/ body.tds_id # None /\ body.tds_id \notin KnownTds
    \/ body.supplier_id # None /\ body.supplier_id \notin KnownPartners
    \/ body.customer_id # None /\ body.customer_id \notin KnownCustomers

\* The ValueErrors create_stock_movement raises before it reads the ledger.
CreateValueError(body) ==
    \/ body.product_id \notin KnownProducts
    \/ body.location = "nairobi_partner" /\ body.transaction_type # "Stock Availability"
    \/ body.location # "nairobi_partner" /\ body.transaction_type = "Stock Availability"
    \/ body.tds_id # None /\ body.tds_id \notin KnownTds
    \/ body.supplier_id # None /\ body.supplier_id \notin KnownPartners
    \/ body.customer_id # None /\ body.customer_id \notin KnownCustomers

CreateRejected(body) == ~StockMovementBaseValid(body) \/ CreateValueError(body)

RECURSIVE SumTransferKg(_)
SumTransferKg(S) ==
    IF S = {} THEN 0
    ELSE LET m == CHOOSE x \in S : TRUE
         IN  m.inter_company_transfer_kg + SumTransferKg(S \ {m})

\* The beginning_balance create_stock_movement goes on with: derived from the
\* stored balances when the caller gave 0.0 and the type is not Stock Availability.
DerivedBeginningBalance(rows, body) ==
    LET fetched         == list_stock_movements(rows, body.product_id)
        target_location == Lower(body.location)
        direct_movements == {m \in fetched : Lower(m.location) = target_location}
        transfers_to    == {m \in fetched :
                               /\ IsTransfer(m)
                               /\ m.transfer_to_location # None
                               /\ Lower(m.transfer_to_location) = target_location}
        \* every stored created_at is earlier than now_utc
        previous_movements == {m \in direct_movements \cup transfers_to : m.date <= body.date}
        previous_direct == {m \in previous_movements : Lower(m.location) = target_location}
        sorted_direct   == SortByDateCreated(previous_direct)
    IN  IF body.beginning_balance = 0 /\ body.transaction_type # "Stock Availability"
           /\ fetched # {} /\ previous_movements # {}
        THEN IF previous_direct # {}
             THEN sorted_direct[Len(sorted_direct)].balance_kg
             ELSE SumTransferKg(transfers_to \cap previous_movements)
        ELSE body.beginning_balance

\* The balance create_stock_movement computes before the insert (not yet floored).
InitialBalance(body, beginning_balance) ==
    IF body.transaction_type = "Stock Availability"
    THEN beginning_balance
    ELSE IF IsTransfer(body) /\ Lower(body.location) = "sez_kenya"
    THEN beginning_balance - body.inter_company_transfer_kg
    ELSE beginning_balance + NetChange(body)
           + (IF body.transfer_to_location # None
                 /\ Lower(body.transfer_to_location) = Lower(body.location)
              THEN body.inter_company_transfer_kg ELSE 0)

\* The row the insert stores: the payload plus the id and created_at the table mints.
InsertedRow(rows, body, now) ==
    LET bb == DerivedBeginningBalance(rows, body)
    IN  [id |-> now, created_at |-> now,
         product_id |-> body.product_id,
         date |-> body.date,
         location |-> Lower(body.location),
         transaction_type |-> body.transaction_type,
         beginning_balance |-> bb,
         purchase_kg |-> body.purchase_kg,
         sold_kg |-> body.sold_kg,
         purchase_direct_shipment_kg |-> body.purchase_direct_shipment_kg,
         sold_direct_shipment_kg |-> body.sold_direct_shipment_kg,
         sample_or_damage_kg |-> body.sample_or_damage_kg,
         inter_company_transfer_kg |-> body.inter_company_transfer_kg,
         transfer_to_location |-> body.transfer_to_location,
         balance_kg |-> Max0(InitialBalance(body, bb))]

\* Mutant: the destination of a transfer is not recalculated.
RecalculatedSourceOnly(m, location) == <<location>>

\* The locations an operation on movement m recalculates, in call order.
RecalculatedLocations(m, location) ==
    IF IsTransfer(m) /\ m.transfer_to_location # None
    THEN <<location, Lower(m.transfer_to_location)>>
    ELSE <<location>>

RECURSIVE RecalculateAll(_, _, _)
RecalculateAll(rows, product_id, locations) ==
    IF locations = <<>> THEN rows
    ELSE RecalculateAll(_recalculate_balances(rows, product_id, Head(locations)),
                        product_id, Tail(locations))

\* The ledger after a create that passed validation.
CreatedRows(rows, body, now) ==
    RecalculateAll(rows \cup {InsertedRow(rows, body, now)}, body.product_id,
                   RecalculatedLocations(body, Lower(body.location)))

(***************************************************************************)
(* update_stock_movement(movement_id, body) and                            *)
(* delete_stock_movement(movement_id), for a movement that exists.         *)
(***************************************************************************)
\* update_data = body.model_dump(exclude_unset=True): a record of the set fields.
HasQuantityField(update_data) == DOMAIN update_data \cap quantity_fields # {}

\* The direct patch: .update(update_data).eq("id", movement_id).
PatchedRow(existing, update_data) ==
    [f \in DOMAIN existing |->
        IF f \in DOMAIN update_data THEN update_data[f] ELSE existing[f]]

\* The locations update_stock_movement recalculates.
UpdateRecalculated(existing, update_data) ==
    IF HasQuantityField(update_data)
    THEN RecalculatedLocations(existing, existing.location)
    ELSE <<>>

\* Mutant: the partial body is written to the row before the recalculation.
UpdatedRowsPatchedFirst(rows, existing, update_data) ==
    LET patched == (rows \ {existing}) \cup {PatchedRow(existing, update_data)}
    IN  IF DOMAIN update_data = {} THEN rows
        ELSE IF HasQuantityField(update_data)
        THEN RecalculateAll(patched, existing.product_id,
                            UpdateRecalculated(existing, update_data))
        ELSE patched

UpdatedRows(rows, existing, update_data) ==
    IF DOMAIN update_data = {} THEN rows
    ELSE IF HasQuantityField(update_data)
    THEN RecalculateAll(rows, existing.product_id, UpdateRecalculated(existing, update_data))
    ELSE (rows \ {existing}) \cup {PatchedRow(existing, update_data)}

\* Mutant: the recalculations run while the row is still stored.
DeletedRowsRecalculatedFirst(rows, existing) ==
    {m \in RecalculateAll(rows, existing.product_id,
                          RecalculatedLocations(existing, existing.location)) :
        m.id # existing.id}

DeletedRows(rows, existing) ==
    RecalculateAll(rows \ {existing}, existing.product_id,
                   RecalculatedLocations(existing, existing.location))

(***************************************************************************)
(* _compute_product_stock(product): the totals get_product_by_id reports.  *)
(***************************************************************************)
\* What one movement of the loop adds to the running total of a location.
StockContribution(movement, loc) ==
    LET location == Lower(movement.location)
    IN  IF movement.transaction_type = "Stock Availability" /\ location = "nairobi_partner"
        THEN 0
        ELSE IF IsTransfer(movement) /\ location = "sez_kenya"
                /\ movement.inter_company_transfer_kg > 0
        THEN (IF loc = "sez_kenya" THEN 0 - movement.inter_company_transfer_kg ELSE 0)
             + (IF movement.transfer_to_location # None
                   /\ Lower(movement.transfer_to_location) = loc
                THEN movement.inter_company_transfer_kg ELSE 0)
        ELSE IF location = loc THEN NetChange(movement) ELSE 0

RECURSIVE SumContributions(_, _)
SumContributions(S, loc) ==
    IF S = {} THEN 0
    ELSE LET m == CHOOSE x \in S : TRUE
         IN  StockContribution(m, loc) + SumContributions(S \ {m}, loc)

nairobi_stock_availability(fetched) ==
    {m \in fetched : /\ m.transaction_type = "Stock Availability"
                     /\ Lower(m.location) = "nairobi_partner"}

\* Mutant: min instead of max, the earliest Stock Availability entry.
earliest_stock_avail(fetched) ==
    CHOOSE m \in nairobi_stock_availability(fetched) :
        \A o \in nairobi_stock_availability(fetched) \ {m} : KeyLess(m, o)

\* max(nairobi_stock_availability, key=(date, created_at or min_datetime))
latest_stock_avail(fetched) ==
    CHOOSE m \in nairobi_stock_availability(fetched) :
        \A o \in nairobi_stock_availability(fetched) \ {m} : KeyLess(o, m)

\* The total before the final max(0.0, .).
RawTotalStock(rows, product_id, loc) ==
    LET fetched == list_stock_movements(rows, product_id)
    IN  IF loc = "nairobi_partner" /\ nairobi_stock_availability(fetched) # {}
        THEN latest_stock_avail(fetched).balance_kg
        ELSE SumContributions(fetched, loc)

\* product.total_stock_<loc>
total_stock(rows, product_id, loc) == Max0(RawTotalStock(rows, product_id, loc))

\* reserved_<loc>: initialised before the loop and never assigned again.
reserved_initial == 0

\* Mutant: every stored sale of the location reserves a unit.
reserved_stock_per_sale(rows, product_id, loc) ==
    Cardinality({m \in list_stock_movements(rows, product_id) :
                    Lower(m.location) = loc /\ m.sold_kg > 0})

\* product.reserved_stock_<loc>
reserved_stock(rows, product_id, loc) == reserved_initial

\* Product.available_stock_<loc>
available_stock(rows, product_id, loc) ==
    total_stock(rows, product_id, loc) - reserved_stock(rows, product_id, loc)

\* Product.total_stock
product_total_stock(rows, product_id) ==
    total_stock(rows, product_id, "addis_ababa")
      + total_stock(rows, product_id, "sez_kenya")
      + total_stock(rows, product_id, "nairobi_partner")

\* Product.total_reserved_stock
total_reserved_stock(rows, product_id) ==
    reserved_stock(rows, product_id, "addis_ababa")
      + reserved_stock(rows, product_id, "sez_kenya")
      + reserved_stock(rows, product_id, "nairobi_partner")

\* Product.total_available_stock
total_available_stock(rows, product_id) ==
    product_total_stock(rows, product_id) - total_reserved_stock(rows, product_id)

(***************************************************************************)
(* The requests the callers send.                                          *)
(***************************************************************************)
BaseBody ==
    [product_id |-> "P", tds_id |-> None, supplier_id |-> None, customer_id |-> None,
     date |-> 1, location |-> "addis_ababa", transaction_type |-> "Purchase",
     unit |-> "kg", beginning_balance |-> 0, purchase_kg |-> 0, sold_kg |-> 0,
     purchase_direct_shipment_kg |-> 0, sold_direct_shipment_kg |-> 0,
     sample_or_damage_kg |-> 0, inter_company_transfer_kg |-> 0,
     transfer_to_location |-> None]

\* Requests that pass validation: one location's purchases and sales, ...
AddisTemplates ==
    {[BaseBody EXCEPT !.purchase_kg = 100],
     [BaseBody EXCEPT !.purchase_kg = 20],
     [BaseBody EXCEPT !.transaction_type = "Sales", !.sold_kg = 30, !.customer_id = "K"]}

\* ... transfers between addis_ababa and sez_kenya, ...
TransferTemplates ==
    {[BaseBody EXCEPT !.purchase_kg = 100],
     [BaseBody EXCEPT !.transaction_type = "Inter-company transfer",
                      !.inter_company_transfer_kg = 50,
                      !.transfer_to_location = "sez_kenya"],
     [BaseBody EXCEPT !.location = "sez_kenya", !.purchase_direct_shipment_kg = 60,
                      !.supplier_id = "S", !.tds_id = "T"],
     [BaseBody EXCEPT !.location = "sez_kenya",
                      !.transaction_type = "Inter-company transfer",
                      !.inter_company_transfer_kg = 50,
                      !.transfer_to_location = "Addis_Ababa"]}

\* ... and the partner's stock counts.
NairobiTemplates ==
    {[BaseBody EXCEPT !.location = "nairobi_partner",
                      !.transaction_type = "Stock Availability",
                      !.beginning_balance = 40],
     [BaseBody EXCEPT !.location = "nairobi_partner",
                      !.transaction_type = "Stock Availability",
                      !.beginning_balance = 80],
     [BaseBody EXCEPT !.location = "sez_kenya",
                      !.transaction_type = "Inter-company transfer",
                      !.inter_company_transfer_kg = 50,
                      !.transfer_to_location = "nairobi_partner"]}

\* Requests that must be rejected.
RejectedBodies ==
    {[BaseBody EXCEPT !.location = "nairobi_partner"],
     [BaseBody EXCEPT !.transaction_type = "Stock Availability", !.beginning_balance = 40],
     [BaseBody EXCEPT !.location = "sez_kenya",
                      !.transaction_type = "Stock Availability", !.beginning_balance = 40],
     [BaseBody EXCEPT !.location = "mombasa", !.purchase_kg = 20],
     [BaseBody EXCEPT !.transaction_type = "Refund", !.purchase_kg = 20],
     [BaseBody EXCEPT !.unit = "litre", !.purchase_kg = 20],
     [BaseBody EXCEPT !.transaction_type = "Sales", !.sold_kg = -30],
     [BaseBody EXCEPT !.product_id = "P_missing", !.purchase_kg = 20],
     [BaseBody EXCEPT !.tds_id = "T_missing", !.purchase_kg = 20],
     [BaseBody EXCEPT !.supplier_id = "S_missing", !.purchase_kg = 20],
     [BaseBody EXCEPT !.transaction_type = "Sales", !.sold_kg = 30,
                      !.customer_id = "K_missing"]}

\* Sales and transfers larger than the stock they draw on.
FloorTemplates ==
    {[BaseBody EXCEPT !.purchase_kg = 20],
     [BaseBody EXCEPT !.transaction_type = "Sales", !.sold_kg = 30, !.customer_id = "K"],
     [BaseBody EXCEPT !.transaction_type = "Inter-company transfer",
                      !.inter_company_transfer_kg = 50,
                      !.transfer_to_location = "sez_kenya"],
     [BaseBody EXCEPT !.location = "sez_kenya",
                      !.transaction_type = "Inter-company transfer",
                      !.inter_company_transfer_kg = 50,
                      !.transfer_to_location = "Addis_Ababa"]}

\* Entries whose quantity fields do not match their type, and a transfer to
\* its own location.
ReplayTemplates ==
    {[BaseBody EXCEPT !.purchase_kg = 100, !.inter_company_transfer_kg = 10],
     [BaseBody EXCEPT !.transaction_type = "Inter-company transfer",
                      !.inter_company_transfer_kg = 50, !.purchase_kg = 20,
                      !.sample_or_damage_kg = 5,
                      !.transfer_to_location = "sez_kenya"],
     [BaseBody EXCEPT !.location = "sez_kenya",
                      !.transaction_type = "Inter-company transfer",
                      !.inter_company_transfer_kg = 30, !.sold_kg = 10,
                      !.transfer_to_location = "SEZ_Kenya"],
     [BaseBody EXCEPT !.location = "sez_kenya", !.transaction_type = "Sales",
                      !.sold_direct_shipment_kg = 15, !.sample_or_damage_kg = 5,
                      !.purchase_direct_shipment_kg = 60,
                      !.inter_company_transfer_kg = 10,
                      !.transfer_to_location = "addis_ababa"]}

OnDates(templates) == {[t EXCEPT !.date = d] : t \in templates, d \in Dates}

AddisBodies == OnDates(AddisTemplates) \cup RejectedBodies
TransferBodies == OnDates(TransferTemplates) \cup RejectedBodies
NairobiBodies == OnDates(NairobiTemplates) \cup RejectedBodies
FloorBodies == OnDates(FloorTemplates) \cup RejectedBodies
ReplayBodies == OnDates(ReplayTemplates) \cup RejectedBodies
Bodies ==
    AddisBodies \cup TransferBodies \cup NairobiBodies \cup FloorBodies \cup ReplayBodies

\* The partial bodies of update_stock_movement.
QuantityUpdates ==
    {[purchase_kg |-> 40],
     [sold_kg |-> 30, date |-> 1],
     [beginning_balance |-> 25, balance_kg |-> 7]}

DirectUpdates ==
    {[remark |-> "checked"],
     [balance_kg |-> 7],
     [balance_kg |-> -5],
     [location |-> "nairobi_partner"],
     [transaction_type |-> "Stock Availability"],
     [transfer_to_location |-> "nairobi_partner"]}
    \cup {[date |-> d] : d \in Dates}

UpdateBodies == QuantityUpdates \cup DirectUpdates

\* The partial bodies whose quantities are all non-negative.
NonNegativeUpdates == {u \in UpdateBodies : "balance_kg" \notin DOMAIN u \/ u.balance_kg >= 0}

MovementIds == 1..MaxMovements

(***************************************************************************)
(* The state machine.                                                      *)
(***************************************************************************)
\* What the last call was and what it did: the operation, its outcome, the
\* movement id, the fields of the partial body (update) and the locations it
\* recalculated, in call order.
Call(op, status, id, fields, recalculated) ==
    [op |-> op, status |-> status, id |-> id, fields |-> fields,
     recalculated |-> recalculated]

\* The callers whose calls may overlap, and a caller with no call in progress.
\* A call in progress holds what the function's local variables hold: the
\* request (target), the rows its first read returned (seen), the derived
\* beginning_balance, the id of its row, the locations still to recalculate,
\* the sorted list of the recalculation under way and the loop index.
Callers == {"a", "b"}

Idle ==
    [op |-> "none", pc |-> "idle", target |-> BaseBody, seen |-> {},
     beginning_balance |-> 0, id |-> 0, locations |-> <<>>, visited |-> <<>>,
     entries |-> <<>>, i |-> 0]

\* Mutant: the ValueError of update and delete mapped as create's is.
status_code_as_create(call) ==
    IF call.status = "ok"
    THEN (IF call.op = "create" THEN 201 ELSE IF call.op = "delete" THEN 204 ELSE 200)
    ELSE 400

\* The HTTP status the endpoint answers with: a ValueError of the service is
\* 400 on POST and 404 on PUT and DELETE, any other exception is 500.
status_code(call) ==
    IF call.status = "ok"
    THEN (IF call.op = "create" THEN 201 ELSE IF call.op = "delete" THEN 204 ELSE 200)
    ELSE IF call.status = "store_error" THEN 500
    ELSE IF call.op = "create" THEN 400 ELSE 404

(***************************************************************************)
(* ProfileUpdateWorker: the profile_update_jobs table, and the workers     *)
(* polling it, one store call at a time.                                   *)
(***************************************************************************)
JobIds == 1..MaxJobs
Workers == {"w1", "w2"}

\* A column that holds no number (None).
Null == 0 - 1

\* self.worker_id = os.getenv("HOSTNAME", "profile_worker")
worker_id(w) == IF w = "w1" THEN "profile_worker" ELSE "host_2"

default_max_attempts == 3

\* int(job.get("attempts") or 0)
attempts_of(job) ==
    IF job.attempts = Null \/ job.attempts = 0 THEN 0 ELSE job.attempts

\* int(job.get("max_attempts") or 3)
max_attempts_of(job) ==
    IF job.max_attempts = Null \/ job.max_attempts = 0
    THEN default_max_attempts ELSE job.max_attempts

\* A row of profile_update_jobs as it is enqueued.
QueuedJob(id, priority, run_after, attempts, max_attempts) ==
    [id |-> id, status |-> "queued", priority |-> priority, run_after |-> run_after,
     attempts |-> attempts, max_attempts |-> max_attempts,
     locked_at |-> Null, locked_by |-> None, completed_at |-> Null, error |-> None]

EnqueuedJobs(id) ==
    {QueuedJob(id, 0, 0, Null, Null),
     QueuedJob(id, 1, 0, 0, 1),
     QueuedJob(id, 0, 1, 0, 2)}

\* .eq("status", "queued").lte("run_after", now_iso)
Eligible(table, now_iso) ==
    {j \in DOMAIN table : table[j].status = "queued" /\ table[j].run_after <= now_iso}

\* .order("priority", desc=True).order("run_after", asc=True).limit(1): the
\* rows the store can return first.
Candidates(table, now_iso) ==
    {j \in Eligible(table, now_iso) :
        \A o \in Eligible(table, now_iso) :
            ~ \/ table[o].priority > table[j].priority
              \/ /\ table[o].priority = table[j].priority
                 /\ table[o].run_after < table[j].run_after}

\* Mutant: the claiming update without its status filter.
claim_matches_any(row) == TRUE

\* .eq("id", job_id).eq("status", "queued") of the claiming update.
claim_matches(row) == row.status = "queued"

Claimed(row, w, now_iso) ==
    [row EXCEPT !.status = "processing", !.locked_at = now_iso,
                !.locked_by = worker_id(w)]

\* Mutant: a job fails for good only after one attempt more.
failed_status_late(attempts, max_attempts) ==
    IF attempts > max_attempts THEN "failed" ELSE "queued"

\* _mark_job_failed: status = "failed" if attempts >= max_attempts else "queued"
failed_status(attempts, max_attempts) ==
    IF attempts >= max_attempts THEN "failed" ELSE "queued"

\* Mutant: the attempt is not counted.
attempts_not_counted(job) == attempts_of(job)

\* attempts = int(job.get("attempts") or 0) + 1
attempts_after(job) == attempts_of(job) + 1

\* The row after _mark_job_done(job).
MarkedDone(row, job, now_iso) ==
    [row EXCEPT !.status = "done", !.attempts = attempts_after(job),
                !.locked_at = Null, !.locked_by = None,
                !.completed_at = now_iso, !.error = None]

\* The row after _mark_job_failed(job, error_msg).
MarkedFailed(row, job, now_iso) ==
    LET attempts == attempts_after(job)
        status   == failed_status(attempts, max_attempts_of(job))
    IN  [row EXCEPT !.status = status, !.attempts = attempts,
                    !.locked_at = Null, !.locked_by = None,
                    !.error = "error_msg",
                    !.run_after = IF status = "queued" THEN now_iso ELSE @]

\* A worker between two run_once calls.
IdleWorker ==
    [pc |-> "idle", row |-> 0, now_iso |-> 0,
     job |-> [QueuedJob(0, 0, 0, Null, Null) EXCEPT !.status = "none"]]

Init ==
    /\ movements = {}
    /\ clock = 0
    /\ updates = 0
    /\ lastCall = Call("none", "ok", 0, {}, <<>>)
    /\ inflight = [c \in Callers |-> Idle]
    /\ listing = NoListing
    /\ jobs \in {table \in [JobIds -> UNION {EnqueuedJobs(j) : j \in JobIds}] :
                    \A j \in JobIds : table[j].id = j}
    /\ workers = [w \in Workers |-> IdleWorker]
    /\ utcnow = 0

\* The ledger's requests with one job table: no worker runs.
InitLedger ==
    /\ Init
    /\ jobs = [j \in JobIds |-> QueuedJob(j, 0, 0, Null, Null)]

CreateStockMovement(body) ==
    IF CreateRejected(body)
    THEN /\ lastCall' = Call("create", "validation_error", 0, {}, <<>>)
         /\ UNCHANGED <<movements, clock, updates, inflight>>
    ELSE /\ clock < MaxMovements
         /\ clock' = clock + 1
         /\ movements' = CreatedRows(movements, body, clock + 1)
         /\ lastCall' = Call("create", "ok", clock + 1, {},
                              RecalculatedLocations(body, Lower(body.location)))
         /\ UNCHANGED <<updates, inflight>>

UpdateStockMovement(movement_id, update_data) ==
    IF get_stock_movement_by_id(movements, movement_id) = {}
    THEN /\ lastCall' = Call("update", "not_found", movement_id, {}, <<>>)
         /\ UNCHANGED <<movements, clock, updates, inflight>>
    ELSE LET existing == CHOOSE m \in movements : m.id = movement_id
         IN  /\ updates < MaxUpdates
             /\ updates' = updates + 1
             /\ movements' = UpdatedRows(movements, existing, update_data)
             /\ lastCall' = Call("update", "ok", movement_id, DOMAIN update_data,
                                  UpdateRecalculated(existing, update_data))
             /\ UNCHANGED <<clock, inflight>>

DeleteStockMovement(movement_id) ==
    IF get_stock_movement_by_id(movements, movement_id) = {}
    THEN /\ lastCall' = Call("delete", "not_found", movement_id, {}, <<>>)
         /\ UNCHANGED <<movements, clock, updates, inflight>>
    ELSE LET existing == CHOOSE m \in movements : m.id = movement_id
         IN  /\ movements' = DeletedRows(movements, existing)
             /\ lastCall' = Call("delete", "ok", movement_id, {},
                                  RecalculatedLocations(existing, existing.location))
             /\ UNCHANGED <<clock, updates, inflight>>

NextOver(bodies, update_bodies) ==
    /\ UNCHANGED aside
    /\ \/ \E body \in bodies : CreateStockMovement(body)
       \/ \E id \in MovementIds, update_data \in update_bodies :
             UpdateStockMovement(id, update_data)
       \/ \E id \in MovementIds : DeleteStockMovement(id)

SpecAddis == InitLedger /\ [][NextOver(AddisBodies, UpdateBodies)]_vars

SpecTransfer == InitLedger /\ [][NextOver(TransferBodies, UpdateBodies)]_vars

SpecNairobi == InitLedger /\ [][NextOver(NairobiBodies, UpdateBodies)]_vars

SpecReplay == InitLedger /\ [][NextOver(ReplayBodies, UpdateBodies)]_vars

\* Callers that supply no negative quantity.
SpecNonNegative == InitLedger /\ [][NextOver(FloorBodies, NonNegativeUpdates)]_vars

(***************************************************************************)
(* The same functions one store call at a time.  Nothing in the service    *)
(* holds a lock or opens a transaction, so between any two store calls of  *)
(* one caller another caller's store calls may run, and a store call may   *)
(* raise.  Each action below is one read or one write of the table.        *)
(***************************************************************************)
\* The row the insert stores once beginning_balance has been derived.
InsertedRowWith(body, beginning_balance, now) ==
    InsertedRow({}, [body EXCEPT !.beginning_balance = beginning_balance], now)

\* Calls that have passed validation and not yet inserted their row.
Pending == Cardinality({c \in Callers : inflight[c].pc = "insert"})

CanBegin(c) == inflight[c].pc \in {"idle", "done", "failed"}

\* create_stock_movement up to its first read of the ledger: the validation
\* and the derivation of beginning_balance from list_stock_movements.
BeginCreate(c, body) ==
    /\ CanBegin(c)
    /\ IF CreateRejected(body)
       THEN /\ lastCall' = Call("create", "validation_error", 0, {}, <<>>)
            /\ inflight' = [inflight EXCEPT ![c] = Idle]
            /\ UNCHANGED <<movements, clock, updates>>
       ELSE /\ clock + Pending < MaxMovements
            /\ inflight' =
                  [inflight EXCEPT ![c] =
                      [Idle EXCEPT !.op = "create", !.pc = "insert", !.target = body,
                                   !.seen = list_stock_movements(movements, body.product_id),
                                   !.beginning_balance =
                                       DerivedBeginningBalance(movements, body)]]
            /\ UNCHANGED <<movements, clock, updates, lastCall>>

\* supabase.table("stock_movements").insert(payload).execute()
Insert(c) ==
    /\ inflight[c].pc = "insert"
    /\ LET call == inflight[c]
       IN  /\ movements' = movements \cup
                 {InsertedRowWith(call.target, call.beginning_balance, clock + 1)}
           /\ inflight' =
                 [inflight EXCEPT ![c] =
                     [call EXCEPT !.pc = "fetch", !.id = clock + 1,
                                  !.locations =
                                      RecalculatedLocations(call.target,
                                                            Lower(call.target.location))]]
    /\ clock' = clock + 1
    /\ UNCHANGED <<updates, lastCall>>

\* delete_stock_movement up to its read of the row.
BeginDelete(c, movement_id) ==
    /\ CanBegin(c)
    /\ IF get_stock_movement_by_id(movements, movement_id) = {}
       THEN /\ lastCall' = Call("delete", "not_found", movement_id, {}, <<>>)
            /\ inflight' = [inflight EXCEPT ![c] = Idle]
       ELSE /\ inflight' =
                  [inflight EXCEPT ![c] =
                      [Idle EXCEPT !.op = "delete", !.pc = "remove", !.id = movement_id,
                                   !.target = CHOOSE m \in movements : m.id = movement_id,
                                   !.seen = movements]]
            /\ UNCHANGED lastCall
    /\ UNCHANGED <<movements, clock, updates>>

\* supabase.table("stock_movements").delete().eq("id", movement_id).execute()
Remove(c) ==
    /\ inflight[c].pc = "remove"
    /\ LET call == inflight[c]
       IN  /\ movements' = {m \in movements : m.id # call.id}
           /\ inflight' =
                 [inflight EXCEPT ![c] =
                     [call EXCEPT !.pc = "fetch",
                                  !.locations =
                                      RecalculatedLocations(call.target,
                                                            call.target.location)]]
    /\ UNCHANGED <<clock, updates, lastCall>>

\* The call once the recalculation of its current location has written its
\* last row: on to the next location, or back to the caller.
AfterLocation(call) ==
    [call EXCEPT !.locations = Tail(call.locations),
                 !.visited = Append(call.visited, Head(call.locations)),
                 !.pc = IF Tail(call.locations) = <<>> THEN "done" ELSE "fetch"]

Returned(call) ==
    IF call.pc = "done" THEN Call(call.op, "ok", call.id, {}, call.visited) ELSE lastCall

\* _recalculate_balances: the fetch, the filter and the sort.
Fetch(c) ==
    /\ inflight[c].pc = "fetch"
    /\ LET call    == inflight[c]
           entries == SortedEntries(list_stock_movements(movements, call.target.product_id),
                                    Head(call.locations))
           next    == IF Len(entries) = 0 THEN AfterLocation(call)
                      ELSE [call EXCEPT !.pc = "write", !.entries = entries, !.i = 1]
       IN  /\ inflight' = [inflight EXCEPT ![c] = next]
           /\ lastCall' = Returned(next)
    /\ UNCHANGED <<movements, clock, updates>>

\* Mutant: each pass reads the rows of the list again before it computes.
WriteFromFreshRows(c) ==
    /\ inflight[c].pc = "write"
    /\ LET call  == inflight[c]
           i     == call.i
           Now(m) == IF \E x \in movements : x.id = m.id
                     THEN CHOOSE x \in movements : x.id = m.id ELSE m
           fresh == [k \in 1..Len(call.entries) |->
                        [kind |-> call.entries[k].kind, m |-> Now(call.entries[k].m)]]
           next  == IF i = Len(call.entries) THEN AfterLocation(call)
                    ELSE [call EXCEPT !.i = i + 1]
       IN  /\ movements' =
                 {IF m.id = call.entries[i].m.id
                  THEN [m EXCEPT !.balance_kg =
                                     WrittenBalance(fresh, i, Head(call.locations)),
                                 !.beginning_balance = current_balance(fresh, i)]
                  ELSE m : m \in movements}
           /\ inflight' = [inflight EXCEPT ![c] = next]
           /\ lastCall' = Returned(next)
    /\ UNCHANGED <<clock, updates>>

\* _recalculate_balances: one pass of the loop, the update of one row by id.
Write(c) ==
    /\ inflight[c].pc = "write"
    /\ LET call == inflight[c]
           i    == call.i
           next == IF i = Len(call.entries) THEN AfterLocation(call)
                   ELSE [call EXCEPT !.i = i + 1]
       IN  /\ movements' =
                 {IF m.id = call.entries[i].m.id
                  THEN [m EXCEPT !.balance_kg =
                                     WrittenBalance(call.entries, i, Head(call.locations)),
                                 !.beginning_balance = current_balance(call.entries, i)]
                  ELSE m : m \in movements}
           /\ inflight' = [inflight EXCEPT ![c] = next]
           /\ lastCall' = Returned(next)
    /\ UNCHANGED <<clock, updates>>

\* Mutant: the failed call's writes are undone, as inside a transaction.
StoreFailsRolledBack(c) ==
    /\ inflight[c].pc \in {"fetch", "write"}
    /\ inflight' = [inflight EXCEPT ![c].pc = "failed"]
    /\ lastCall' = Call(inflight[c].op, "store_error", inflight[c].id, {},
                         inflight[c].visited)
    /\ movements' = inflight[c].seen
    /\ UNCHANGED <<clock, updates>>

\* The store raises in the fetch or in a row update of a recalculation: the
\* exception leaves the function, which has no except or rollback.
StoreFails(c) ==
    /\ inflight[c].pc \in {"fetch", "write"}
    /\ inflight' = [inflight EXCEPT ![c].pc = "failed"]
    /\ lastCall' = Call(inflight[c].op, "store_error", inflight[c].id, {},
                         inflight[c].visited)
    /\ UNCHANGED <<movements, clock, updates>>

\* Two callers creating at one location, with nothing to keep them apart.
RaceBodies == OnDates(AddisTemplates)

SpecRace ==
    InitLedger /\ [][/\ UNCHANGED aside
               /\ \E c \in Callers :
                     \/ \E body \in RaceBodies : BeginCreate(c, body)
                     \/ Insert(c)
                     \/ Fetch(c)
                     \/ Write(c)]_vars

\* One caller creating and deleting while the store may fail.
OutageBodies == OnDates(TransferTemplates)

SpecOutage ==
    InitLedger /\ [][/\ UNCHANGED aside
               /\ \/ \E body \in OutageBodies : BeginCreate("a", body)
                  \/ Insert("a")
                  \/ \E id \in MovementIds : BeginDelete("a", id)
                  \/ Remove("a")
                  \/ Fetch("a")
                  \/ Write("a")
                  \/ StoreFails("a")]_vars

(***************************************************************************)
(* The reference replay of section 4.1: the entries affecting a location   *)
(* in (date, created_at) order, each starting from the ending balance      *)
(* computed for the entry before it, floored at zero after each entry.     *)
(***************************************************************************)
ReplayDelta(entry) ==
    IF entry.kind = "direct"
    THEN IF IsTransfer(entry.m) THEN 0 - entry.m.inter_company_transfer_kg
         ELSE NetChange(entry.m)
    ELSE entry.m.inter_company_transfer_kg

RECURSIVE ReplayEnding(_, _)
ReplayEnding(entries, i) ==
    LET start == IF i = 1 THEN entries[1].m.beginning_balance
                 ELSE ReplayEnding(entries, i - 1)
    IN  Max0(start + ReplayDelta(entries[i]))

ReplayStart(entries, i) ==
    IF i = 1 THEN entries[1].m.beginning_balance ELSE ReplayEnding(entries, i - 1)

\* The sequence of a location and the place of a movement in it.
SequenceOf(rows, location) == SortedEntries(list_stock_movements(rows, "P"), location)

PlaceOf(entries, m) == CHOOSE i \in 1..Len(entries) : entries[i].m.id = m.id

\* The ending balance the replay of m's own location assigns to m.
ReplayBalanceOf(rows, m) ==
    LET entries == SequenceOf(rows, m.location)
    IN  ReplayEnding(entries, PlaceOf(entries, m))

\* Every row ever inserted is still stored and no update call went through.
OnlyCreates == updates = 0 /\ Cardinality(movements) = clock

(***************************************************************************)
(* C1.  In every reachable state every stored movement's balance_kg equals *)
(* the ending balance the replay of its own location assigns to it.        *)
(* Violated: an update that sets balance_kg stores the caller's value, and *)
(* one recalculation moves a change only one entry down the sequence.      *)
(***************************************************************************)
C1_BalanceIsReplay ==
    \A m \in movements : m.balance_kg = ReplayBalanceOf(movements, m)

(***************************************************************************)
(* C2.  After creates only, at one location and with pairwise distinct     *)
(* dates, every stored balance_kg equals the balance the reference replay  *)
(* gives it.  Violated when the new movement is dated before two stored    *)
(* ones: the second of them keeps its old balance.                         *)
(***************************************************************************)
C2_CreateOrderReplay ==
    (/\ OnlyCreates
     /\ \A a, b \in movements :
           a.location = b.location /\ (a.id # b.id => a.date # b.date))
    => \A m \in movements : m.balance_kg = ReplayBalanceOf(movements, m)

(***************************************************************************)
(* C3.  With no negative quantity supplied, every stored balance_kg and    *)
(* beginning_balance, every per-location total of the aggregator and the   *)
(* balance_kg create_stock_movement inserts are non-negative.              *)
(***************************************************************************)
C3_BalancesNonNegative ==
    /\ \A m \in movements : m.balance_kg >= 0 /\ m.beginning_balance >= 0
    /\ \A loc \in LOCATIONS : total_stock(movements, "P", loc) >= 0
    /\ \A body \in FloorBodies :
          ~CreateRejected(body) => InsertedRow(movements, body, clock + 1).balance_kg >= 0

\* A create whose subtraction exceeded the balance before it was stored as 0.
C3_Witness ==
    /\ lastCall.op = "create" /\ lastCall.status = "ok"
    /\ \E m \in movements :
          /\ m.id = lastCall.id
          /\ m.balance_kg = 0
          /\ m.beginning_balance + ReplayDelta([kind |-> "direct", m |-> m]) < 0
    /\ \E loc \in LOCATIONS :
          RawTotalStock(movements, "P", loc) < 0 /\ total_stock(movements, "P", loc) = 0

\* The running balance of a location: the ending balance stored on the latest
\* entry of its sequence (0 for an empty sequence).
RunningBalance(rows, location) ==
    LET entries == SequenceOf(rows, location)
    IN  IF Len(entries) = 0 THEN 0 ELSE entries[Len(entries)].m.balance_kg

\* A request for an inter-company transfer to another location.
IsTransferElsewhere(body) ==
    /\ IsTransfer(body)
    /\ body.transfer_to_location # None
    /\ Lower(body.transfer_to_location) # Lower(body.location)

(***************************************************************************)
(* C4.  A completed create of an inter-company transfer of Q from A to a   *)
(* different location B leaves A's running balance at max(0, preA - Q) and *)
(* B's at preB + Q.  Violated: the recalculation of B writes B's values    *)
(* over the transfer row that the recalculation of A has just written.     *)
(***************************************************************************)
C4_TransferConservation ==
    [][\A body \in Bodies :
          (/\ ~CreateRejected(body)
           /\ IsTransferElsewhere(body)
           /\ CreateStockMovement(body))
          => /\ RunningBalance(movements', body.location)
                  = Max0(RunningBalance(movements, body.location)
                           - body.inter_company_transfer_kg)
             /\ RunningBalance(movements', Lower(body.transfer_to_location))
                  = RunningBalance(movements, Lower(body.transfer_to_location))
                      + body.inter_company_transfer_kg]_vars

\* The request is dated no earlier than any entry of its location's sequence.
IsLatestAt(rows, body) ==
    \A i \in 1..Len(SequenceOf(rows, body.location)) :
        SequenceOf(rows, body.location)[i].m.date <= body.date

(***************************************************************************)
(* C5.  After a create of a Stock Availability entry with stock value V at *)
(* nairobi_partner that is the latest entry, the product's                 *)
(* total_stock_nairobi_partner is V.  Violated: the recalculation replaces *)
(* the entry's balance by the balance of the entry before it.              *)
(***************************************************************************)
C5_SnapshotOverride ==
    [][\A body \in Bodies :
          (/\ ~CreateRejected(body)
           /\ body.location = "nairobi_partner"
           /\ body.transaction_type = "Stock Availability"
           /\ IsLatestAt(movements, body)
           /\ CreateStockMovement(body))
          => total_stock(movements', "P", "nairobi_partner") = body.beginning_balance]_vars

\* What the claim lists as requests to reject.
C6_MustReject(body) ==
    \/ body.location = "nairobi_partner" /\ body.transaction_type # "Stock Availability"
    \/ body.location \in {"addis_ababa", "sez_kenya"}
          /\ body.transaction_type = "Stock Availability"
    \/ body.location \notin LOCATIONS
    \/ body.transaction_type \notin TRANSACTION_TYPES
    \/ body.unit \notin UNITS
    \/ \E f \in quantity_fields : body[f] < 0
    \/ body.product_id \notin KnownProducts
    \/ body.tds_id \notin KnownTds \cup {None}
    \/ body.supplier_id \notin KnownPartners \cup {None}
    \/ body.customer_id \notin KnownCustomers \cup {None}

(***************************************************************************)
(* C6.  create_stock_movement answers every request the claim lists with a *)
(* validation error and leaves the ledger as it was: no row inserted, no   *)
(* balance rewritten.                                                      *)
(***************************************************************************)
C6_Listed == {body \in Bodies : C6_MustReject(body)}

C6_RejectedBeforeWrite ==
    [][\A body \in C6_Listed :
          CreateStockMovement(body)
          => /\ lastCall'.op = "create"
             /\ lastCall'.status = "validation_error"
             /\ movements' = movements
             /\ clock' = clock]_vars

\* A request was rejected while the ledger held rows.
C6_Witness ==
    /\ lastCall.op = "create"
    /\ lastCall.status = "validation_error"
    /\ Cardinality(movements) >= 2

(***************************************************************************)
(* C7.  Every stored movement at nairobi_partner is a Stock Availability   *)
(* entry and no stored movement at addis_ababa or sez_kenya is one.        *)
(* Violated: update_stock_movement patches location or transaction_type    *)
(* without any validation.                                                 *)
(***************************************************************************)
C7_LocationTypeInvariant ==
    \A m \in movements :
        /\ m.location = "nairobi_partner" => m.transaction_type = "Stock Availability"
        /\ m.location \in {"addis_ababa", "sez_kenya"}
             => m.transaction_type # "Stock Availability"

\* The ledger after create_stock_movement(X) and then create_stock_movement(Y).
CreatedInOrder(rows, X, Y) ==
    CreatedRows(CreatedRows(rows, X, clock + 1), Y, clock + 2)

AcceptedBodies == {body \in Bodies : ~CreateRejected(body)}

\* Pairs {X, Y} of different requests for the same product, location and date.
SameDayPairs ==
    {{p[1], p[2]} :
        p \in {q \in AcceptedBodies \X AcceptedBodies :
                  /\ q[1] # q[2]
                  /\ q[1].product_id = q[2].product_id
                  /\ q[1].location = q[2].location
                  /\ q[1].date = q[2].date}}

\* The pairs of the amended claim: no inter-company transfer, beginning_balance omitted.
PlainSameDayPairs ==
    {pair \in SameDayPairs :
        \A X \in pair : ~IsTransfer(X) /\ X.beginning_balance = 0}

One(pair) == CHOOSE X \in pair : TRUE

Other(pair) == CHOOSE Y \in pair : Y # One(pair)

BodyDelta(body) == ReplayDelta([kind |-> "direct", m |-> body])

\* Neither order takes more than the balance available before the movement.
NoFloorInEitherOrder(rows, X, Y) ==
    LET available == RunningBalance(rows, X.location)
    IN  /\ available + BodyDelta(X) >= 0
        /\ available + BodyDelta(Y) >= 0
        /\ available + BodyDelta(X) + BodyDelta(Y) >= 0

Row(id) == CHOOSE m \in movements : m.id = id

IsExampleRow(id, date, purchase_kg, sold_kg) ==
    /\ \E m \in movements : m.id = id
    /\ Row(id).location = "addis_ababa"
    /\ Row(id).date = date
    /\ Row(id).purchase_kg = purchase_kg
    /\ Row(id).sold_kg = sold_kg

ExampleM1M2 ==
    /\ OnlyCreates
    /\ IsExampleRow(1, 1, 100, 0)
    /\ IsExampleRow(2, 2, 0, 30)

ExampleM1M2M3 == ExampleM1M2 /\ clock = 3 /\ IsExampleRow(3, 1, 20, 0)

ChainIds(location) ==
    [i \in 1..Len(SequenceOf(movements, location)) |->
        SequenceOf(movements, location)[i].m.id]

C9_ExampleChain ==
    /\ (ExampleM1M2 /\ clock = 2)
         => /\ ChainIds("addis_ababa") = <<1, 2>>
            /\ Row(1).balance_kg = 100
            /\ Row(2).beginning_balance = 100 /\ Row(2).balance_kg = 70
    /\ ExampleM1M2M3
         => /\ ChainIds("addis_ababa") = <<1, 3, 2>>
            /\ Row(1).beginning_balance = 0 /\ Row(1).balance_kg = 100
            /\ Row(3).beginning_balance = 100 /\ Row(3).balance_kg = 120
            /\ Row(2).beginning_balance = 120 /\ Row(2).balance_kg = 90

C9_Witness == ExampleM1M2M3 /\ lastCall.op = "create" /\ lastCall.id = 3

(***************************************************************************)
(* C10.  The locations a movement affects, and the movement the last call  *)
(* acted on (the stored row before an update or delete, the new row after  *)
(* a create).                                                              *)
(***************************************************************************)
Affected(m) ==
    IF IsTransfer(m) /\ m.transfer_to_location # None
    THEN {Lower(m.location), Lower(m.transfer_to_location)}
    ELSE {Lower(m.location)}

Visited(call) == {Lower(call.recalculated[i]) : i \in 1..Len(call.recalculated)}

ActedOn ==
    IF lastCall'.op = "create"
    THEN CHOOSE m \in movements' : m.id = lastCall'.id
    ELSE CHOOSE m \in movements : m.id = lastCall'.id

Completed == lastCall'.status = "ok" /\ lastCall'.op \in {"create", "update", "delete"}

(***************************************************************************)
(* C10 as stated.  Every successful create, update and delete recalculates *)
(* the movement's location and, for a transfer with a destination, the     *)
(* destination.  Violated: an update without a quantity field (a new date, *)
(* location, type or destination) patches the row and recalculates nothing.*)
(***************************************************************************)
C10_EveryWriteRecalculates ==
    [][Completed => Visited(lastCall') = Affected(ActedOn)]_vars

(***************************************************************************)
(* C10 as amended.  Every successful create and delete, and every          *)
(* successful update whose partial body holds a quantity field,            *)
(* recalculates the movement's location and, for a transfer with a         *)
(* destination, the destination; an update of other fields only            *)
(* recalculates nothing.                                                   *)
(***************************************************************************)
C10_QuantityWritesRecalculate ==
    [][Completed =>
         IF lastCall'.op = "update" /\ lastCall'.fields \cap quantity_fields = {}
         THEN Visited(lastCall') = {}
         ELSE Visited(lastCall') = Affected(ActedOn)]_vars

\* An update of the date alone went through without a recalculation and left a
\* transfer chain that the replay contradicts.
C10_Witness ==
    /\ lastCall.op = "update" /\ lastCall.status = "ok"
    /\ lastCall.fields = {"date"}
    /\ lastCall.recalculated = <<>>
    /\ \E m \in movements :
          /\ m.id = lastCall.id
          /\ IsTransfer(m) /\ m.transfer_to_location # None
    /\ ~C1_BalanceIsReplay

(***************************************************************************)
(* C11.  A completed delete_stock_movement leaves no row with the deleted  *)
(* id, recalculates the location the row had and, for an inter-company     *)
(* transfer with a destination, that destination, in this order and from   *)
(* the values read before the delete, and the recalculation runs on the    *)
(* ledger without the row: every entry of the location recalculated last   *)
(* starts from the balance of its predecessor among the remaining rows.    *)
(***************************************************************************)
DeleteCompleted == lastCall'.op = "delete" /\ lastCall'.status = "ok"

DeletedRow == CHOOSE m \in movements : m.id = lastCall'.id

LocationsBeforeDelete(existing) ==
    IF IsTransfer(existing) /\ existing.transfer_to_location # None
    THEN <<existing.location, Lower(existing.transfer_to_location)>>
    ELSE <<existing.location>>

C11_DeleteThenRecalculate ==
    [][DeleteCompleted =>
         LET existing  == DeletedRow
             remaining == movements \ {existing}
             locations == LocationsBeforeDelete(existing)
             before    == IF Len(locations) = 2
                          THEN _recalculate_balances(remaining, "P", locations[1])
                          ELSE remaining
             entries   == SequenceOf(before, locations[Len(locations)])
         IN  /\ {m.id : m \in movements'} = {m.id : m \in remaining}
             /\ lastCall'.recalculated = locations
             /\ \A loc \in LOCATIONS :
                   \A i \in 1..Len(SequenceOf(movements', loc)) :
                       SequenceOf(movements', loc)[i].m.id # existing.id
             /\ \A i \in 2..Len(entries) :
                   \E m \in movements' :
                       /\ m.id = entries[i].m.id
                       /\ m.beginning_balance = entries[i - 1].m.balance_kg]_vars

\* A transfer with a destination was deleted and rows remain behind it.
C11_Witness ==
    /\ lastCall.op = "delete" /\ lastCall.status = "ok"
    /\ Len(lastCall.recalculated) = 2
    /\ Len(SequenceOf(movements, lastCall.recalculated[1])) >= 1
    /\ Len(SequenceOf(movements, lastCall.recalculated[2])) >= 2

(***************************************************************************)
(* C12.  A completed update_stock_movement whose partial body holds a      *)
(* quantity field recalculates the movement's location and, for a transfer *)
(* with a destination, the destination, and patches nothing: every row     *)
(* keeps every field but balance_kg and beginning_balance, and those two   *)
(* hold what the recalculation of the unpatched ledger writes.             *)
(***************************************************************************)
QuantityUpdateCompleted ==
    /\ lastCall'.op = "update" /\ lastCall'.status = "ok"
    /\ lastCall'.fields \cap quantity_fields # {}

C13_QuantityUpdateApplied ==
    [][\A id \in MovementIds, update_data \in QuantityUpdates :
          (/\ get_stock_movement_by_id(movements, id) # {}
           /\ UpdateStockMovement(id, update_data))
          => LET returned == CHOOSE m \in movements' : m.id = id
             IN  /\ \A f \in DOMAIN update_data \cap quantity_fields :
                       returned[f] = update_data[f]
                 /\ \A m \in movements' :
                       (m.location = returned.location /\ ~KeyLess(m, returned))
                       => m.balance_kg = ReplayBalanceOf(movements', m)]_vars

(***************************************************************************)
(* C14.  For addis_ababa and sez_kenya the total _compute_product_stock    *)
(* reports equals the final ending balance of the replay of the location   *)
(* (inbound transfers included, the first entry's beginning_balance as the *)
(* start, origin transfers subtracted, floored after each entry).          *)
(* Violated: the aggregator floors only the grand total of the net         *)
(* changes, ignores beginning_balance and handles transfers only when they *)
(* leave sez_kenya (a sale of 30 then a purchase of 20 from 0: replay 20,  *)
(* total 0).                                                               *)
(***************************************************************************)
ReplayFinal(rows, location) ==
    LET entries == SequenceOf(rows, location)
    IN  IF Len(entries) = 0 THEN 0 ELSE ReplayEnding(entries, Len(entries))

C14_TotalIsReplayFinal ==
    \A loc \in {"addis_ababa", "sez_kenya"} :
        total_stock(movements, "P", loc) = ReplayFinal(movements, loc)

(***************************************************************************)
(* C15.  When the product has a Stock Availability movement at             *)
(* nairobi_partner, the total reported for nairobi_partner is the stored   *)
(* balance_kg, floored at zero, of the Stock Availability movement that is *)
(* greatest by (date, created_at); nothing else contributes.               *)
(***************************************************************************)
Snapshots(rows) ==
    {m \in rows : /\ m.product_id = "P"
                  /\ m.transaction_type = "Stock Availability"
                  /\ Lower(m.location) = "nairobi_partner"}

LatestSnapshot(rows) ==
    CHOOSE m \in Snapshots(rows) :
        \A o \in Snapshots(rows) \ {m} :
            \/ o.date < m.date
            \/ o.date = m.date /\ CreatedKey(o) < CreatedKey(m)

InboundAt(rows, location) ==
    {m \in rows : /\ IsTransfer(m) /\ m.inter_company_transfer_kg > 0
                  /\ m.transfer_to_location # None
                  /\ Lower(m.transfer_to_location) = location}

C15_LatestSnapshotIsTotal ==
    Snapshots(movements) # {}
    => total_stock(movements, "P", "nairobi_partner")
         = Max0(LatestSnapshot(movements).balance_kg)

\* Two stock counts with different balances and an inbound transfer are
\* stored, and the total is the later count's balance.
C15_Witness ==
    /\ \E a, b \in Snapshots(movements) :
          /\ a.balance_kg # b.balance_kg
          /\ b = LatestSnapshot(movements)
          /\ total_stock(movements, "P", "nairobi_partner") = b.balance_kg
    /\ InboundAt(movements, "nairobi_partner") # {}

(***************************************************************************)
(* C16.  For every ledger the reserved stock of each location is 0, the    *)
(* available stock of each location is its total stock, and the product's  *)
(* total available stock is its total stock.                               *)
(***************************************************************************)
C16_NothingReserved ==
    /\ \A loc \in LOCATIONS :
          /\ reserved_stock(movements, "P", loc) = 0
          /\ available_stock(movements, "P", loc) = total_stock(movements, "P", loc)
    /\ total_available_stock(movements, "P") = product_total_stock(movements, "P")

\* Purchases and a sale are stored, stock remains, and all of it is available.
C16_Witness ==
    /\ \E m \in movements : m.sold_kg > 0
    /\ \E m \in movements : m.purchase_kg > 0
    /\ total_stock(movements, "P", "addis_ababa") > 0
    /\ available_stock(movements, "P", "addis_ababa")
          = total_stock(movements, "P", "addis_ababa")
    /\ total_available_stock(movements, "P") = total_stock(movements, "P", "addis_ababa")

(***************************************************************************)
(* C17.  update_stock_movement and delete_stock_movement called with an id *)
(* that is not in the ledger answer not found (404, where a create-time    *)
(* validation error is 400), recalculate nothing and leave every stored    *)
(* movement as it was.                                                     *)
(***************************************************************************)
C17_UnknownIdNotFound ==
    [][(/\ lastCall'.op \in {"update", "delete"}
        /\ \A m \in movements : m.id # lastCall'.id)
       => /\ lastCall'.status = "not_found"
          /\ status_code(lastCall') = 404
          /\ status_code(Call("create", "validation_error", 0, {}, <<>>)) = 400
          /\ lastCall'.recalculated = <<>>
          /\ movements' = movements]_vars

\* An update named an id that the ledger, which holds other rows, does not.
C17_Witness ==
    /\ lastCall.op = "update" /\ lastCall.status = "not_found"
    /\ movements # {}
    /\ \A m \in movements : m.id # lastCall.id

(***************************************************************************)
(* C18.  A completed create with beginning_balance left at 0 and a type    *)
(* other than Stock Availability, at a location whose sequence has an      *)
(* entry on or before the new date, returns a row whose beginning_balance  *)
(* is the stored ending balance of the entry just before it in the         *)
(* location's sequence (an inbound transfer included) and whose balance_kg *)
(* is that beginning_balance with the row's own quantities applied.        *)
(***************************************************************************)
HasEarlierEntry(rows, body) ==
    \E i \in 1..Len(SequenceOf(rows, body.location)) :
        SequenceOf(rows, body.location)[i].m.date <= body.date

DerivesBeginningBalance(body) ==
    /\ ~CreateRejected(body)
    /\ body.beginning_balance = 0
    /\ body.transaction_type # "Stock Availability"

ChainedToPredecessor(rows, returned) ==
    LET entries == SequenceOf(rows, returned.location)
        i       == PlaceOf(entries, returned)
    IN  /\ i > 1
        /\ returned.beginning_balance = entries[i - 1].m.balance_kg
        /\ returned.balance_kg
              = Max0(returned.beginning_balance
                       + ReplayDelta([kind |-> "direct", m |-> returned]))

C18_DerivedFromPredecessor ==
    [][\A body \in Bodies :
          (/\ DerivesBeginningBalance(body)
           /\ HasEarlierEntry(movements, body)
           /\ CreateStockMovement(body))
          => ChainedToPredecessor(movements',
                                  CHOOSE m \in movements' : m.id = clock')]_vars

(***************************************************************************)
(* C19.  Two create_stock_movement calls at one location, interleaved      *)
(* store call by store call.  When both calls read the same ledger, the    *)
(* call that returns last fetched its recalculation list before the other  *)
(* call's row was inserted, then the row it wrote last holds what that     *)
(* call would have written had the other call never run: the other call's  *)
(* effect on that row is lost.  The witness is such a run whose stored     *)
(* balances are those of neither sequential order.                         *)
(***************************************************************************)
BothCreated ==
    \A c \in Callers : inflight[c].pc = "done" /\ inflight[c].op = "create"

\* Both calls derived from the same ledger and nothing else was inserted since.
SameRead ==
    /\ inflight["a"].seen = inflight["b"].seen
    /\ {m.id : m \in movements}
         = {m.id : m \in inflight["a"].seen} \cup {inflight["a"].id, inflight["b"].id}

\* The call that returned last and the other one.
LastReturned == IF lastCall.id = inflight["a"].id THEN inflight["a"] ELSE inflight["b"]

OtherCall == IF lastCall.id = inflight["a"].id THEN inflight["b"] ELSE inflight["a"]

StaleFetch(call, other) ==
    \A k \in 1..Len(call.entries) : call.entries[k].m.id # other.id

\* The row with the given id, as stored.
StoredRow(rows, id) == CHOOSE m \in rows : m.id = id

C19_LastWriterLosesOther ==
    (/\ BothCreated /\ SameRead
     /\ StaleFetch(LastReturned, OtherCall))
    => LET call  == LastReturned
           last  == call.entries[Len(call.entries)].m.id
           alone == CreatedRows(call.seen, call.target, call.id)
       IN  /\ StoredRow(movements, last).balance_kg = StoredRow(alone, last).balance_kg
           /\ StoredRow(movements, last).beginning_balance
                 = StoredRow(alone, last).beginning_balance

\* The two orders of running the calls one after the other, the earlier call
\* taking the lower id, and the stored rows with the two ids exchanged.
FirstInserted == IF inflight["a"].id < inflight["b"].id THEN inflight["a"] ELSE inflight["b"]

SecondInserted == IF inflight["a"].id < inflight["b"].id THEN inflight["b"] ELSE inflight["a"]

OneAfterTheOther(x, y) ==
    CreatedRows(CreatedRows(x.seen, x.target, FirstInserted.id), y.target, SecondInserted.id)

IdsExchanged(rows) ==
    {IF m.id = FirstInserted.id
     THEN [m EXCEPT !.id = SecondInserted.id, !.created_at = SecondInserted.id]
     ELSE IF m.id = SecondInserted.id
     THEN [m EXCEPT !.id = FirstInserted.id, !.created_at = FirstInserted.id]
     ELSE m : m \in rows}

BalancesOf(rows) == {<<m.id, m.balance_kg>> : m \in rows}

\* Both calls read the same ledger and the same previous balance, both have
\* returned, and the stored balance_kg values are those of neither order.
C19_Witness ==
    /\ BothCreated /\ SameRead
    /\ inflight["a"].beginning_balance = inflight["b"].beginning_balance
    /\ StaleFetch(LastReturned, OtherCall)
    /\ BalancesOf(movements) # BalancesOf(OneAfterTheOther(FirstInserted, SecondInserted))
    /\ BalancesOf(IdsExchanged(movements))
         # BalancesOf(OneAfterTheOther(SecondInserted, FirstInserted))

(***************************************************************************)
(* C20.  When the store fails after create_stock_movement has inserted its *)
(* row or delete_stock_movement has removed its row, or between two row    *)
(* updates of a recalculation, the call reports a failure (500) and        *)
(* nothing is undone: the inserted row is stored, the deleted row is gone, *)
(* the entries the loop has passed hold the balances it wrote and the      *)
(* entries it has not reached are as they were fetched.                    *)
(***************************************************************************)
FailsNow(c) == inflight[c].pc \in {"fetch", "write"} /\ inflight'[c].pc = "failed"

C20_NoRollback ==
    [][\A c \in Callers :
          FailsNow(c) =>
            LET call == inflight[c]
            IN  /\ lastCall'.status = "store_error"
                /\ status_code(lastCall') = 500
                /\ movements' = movements
                /\ call.op = "create" => \E m \in movements' : m.id = call.id
                /\ call.op = "delete" => \A m \in movements' : m.id # call.id
                /\ call.pc = "write" =>
                      \A k \in 1..Len(call.entries) :
                          LET stored == StoredRow(movements', call.entries[k].m.id)
                          IN  IF k < call.i
                              THEN /\ stored.balance_kg
                                        = WrittenBalance(call.entries, k, Head(call.locations))
                                   /\ stored.beginning_balance
                                        = current_balance(call.entries, k)
                              ELSE stored = call.entries[k].m]_vars

\* A create failed between two row updates: its row is stored, a row the
\* loop had passed holds a new balance and a row it had not reached still
\* holds a balance the completed recalculation would have replaced.
C20_Witness ==
    LET call == inflight["a"]
    IN  /\ call.pc = "failed" /\ call.op = "create"
        /\ lastCall.status = "store_error"
        /\ call.locations # <<>>
        /\ 1 < call.i /\ call.i <= Len(call.entries)
        /\ \E m \in movements : m.id = call.id
        /\ \E k \in 1..(call.i - 1) :
              StoredRow(movements, call.entries[k].m.id) # call.entries[k].m
        /\ \E k \in call.i..Len(call.entries) :
              StoredRow(movements, call.entries[k].m.id).balance_kg
                # WrittenBalance(call.entries, k, Head(call.locations))

(***************************************************************************)
(* C21.  After one run of _recalculate_balances on a stored ledger the     *)
(* location's sequence is chain-consistent: the first entry keeps the      *)
(* beginning_balance it had and every later entry's beginning_balance is   *)
(* the balance_kg this run stored on the entry before it.  Violated: the   *)
(* loop takes the previous entry's balance_kg from the rows it fetched,    *)
(* not from what it has just written.                                      *)
(***************************************************************************)
ChainConsistentAfterRun(rows, location) ==
    LET before == SequenceOf(rows, location)
        after  == SequenceOf(_recalculate_balances(rows, "P", location), location)
    IN  \A i \in 1..Len(after) :
            IF i = 1
            THEN after[i].m.beginning_balance = before[i].m.beginning_balance
            ELSE after[i].m.beginning_balance = after[i - 1].m.balance_kg

C21_RunLeavesChain ==
    \A location \in LOCATIONS : ChainConsistentAfterRun(movements, location)

(***************************************************************************)
(* The replay order by itself: the store hands a list of rows in some      *)
(* order, some rows without created_at, and the sort is applied to it.     *)
(***************************************************************************)
ListedRows ==
    [id : 1..MaxMovements, date : 1..2, created_at : 0..2]

\* Lists of distinct rows, as a store can return them.
Listings ==
    {l \in UNION {[1..n -> ListedRows] : n \in 1..MaxMovements} :
        \A i, j \in 1..Len(l) : i # j => l[i].id # l[j].id}

\* all_movements = list_stock_movements(...); location_movements filled.
StoreReturns(l) ==
    /\ ~listing.done
    /\ listing.fetched = <<>>
    /\ listing' = [listing EXCEPT !.fetched = l]
    /\ UNCHANGED <<ledger, jobs, workers, utcnow>>

\* location_movements.sort(key=lambda x: (date, created_at or min_datetime))
SortListing ==
    /\ ~listing.done
    /\ listing.fetched # <<>>
    /\ listing' = [listing EXCEPT !.sorted = sort_by_key(listing.fetched),
                                  !.done = TRUE]
    /\ UNCHANGED <<ledger, jobs, workers, utcnow>>

\* The next recalculation starts.
ForgetListing ==
    /\ listing.done
    /\ listing' = NoListing
    /\ UNCHANGED <<ledger, jobs, workers, utcnow>>

SpecSort ==
    InitLedger /\ [][\/ \E l \in Listings : StoreReturns(l)
               \/ SortListing
               \/ ForgetListing]_vars

(***************************************************************************)
(* C22: the replay order is ascending transaction date, then ascending     *)
(* created_at, an entry without created_at before every entry of its date  *)
(* that has one; when all (date, created_at) keys are distinct the order   *)
(* is the same for every order in which the store returned the rows.       *)
(***************************************************************************)
HasCreatedAt(m) == m.created_at # 0

ReplaysBefore(a, b) ==
    \/ a.date < b.date
    \/ /\ a.date = b.date
       /\ \/ ~HasCreatedAt(a) /\ HasCreatedAt(b)
          \/ HasCreatedAt(a) /\ HasCreatedAt(b) /\ a.created_at < b.created_at
          \/ HasCreatedAt(a) = HasCreatedAt(b) /\ a.created_at = b.created_at

SameRows(k, l) ==
    /\ Len(k) = Len(l)
    /\ {k[i] : i \in 1..Len(k)} = {l[i] : i \in 1..Len(l)}

DistinctKeys(l) ==
    \A i, j \in 1..Len(l) :
        i # j => <<l[i].date, l[i].created_at>> # <<l[j].date, l[j].created_at>>

C22_ReplayOrder ==
    listing.done =>
        /\ SameRows(listing.sorted, listing.fetched)
        /\ \A i, j \in 1..Len(listing.sorted) :
               i < j => ReplaysBefore(listing.sorted[i], listing.sorted[j])
        /\ DistinctKeys(listing.fetched) =>
               \A other \in Listings :
                   SameRows(other, listing.fetched)
                       => sort_by_key(other) = listing.sorted

C22_Witness ==
    /\ listing.done
    /\ Len(listing.sorted) = 3
    /\ DistinctKeys(listing.fetched)
    /\ listing.fetched # listing.sorted
    /\ \E i, j \in 1..3 :
           /\ i < j
           /\ listing.sorted[i].date = listing.sorted[j].date
           /\ ~HasCreatedAt(listing.sorted[i])
           /\ HasCreatedAt(listing.sorted[j])
           /\ \E a, b \in 1..3 :
                  /\ a < b
                  /\ listing.fetched[a] = listing.sorted[j]
                  /\ listing.fetched[b] = listing.sorted[i]

(***************************************************************************)
(* C23: in the replay of a location L, an entry recorded at L of type      *)
(* Inter-company transfer changes the running balance by exactly           *)
(* -inter_company_transfer_kg, an entry recorded at L of any other type by *)
(* purchase + purchase_direct_shipment - sold - sold_direct_shipment       *)
(* - sample_or_damage, and an Inter-company transfer recorded elsewhere    *)
(* with destination L by +inter_company_transfer_kg; a transfer whose      *)
(* destination is its own location is applied once, as an origin entry,    *)
(* and no other row takes part in the replay of L.                         *)
(***************************************************************************)
RecordedAt(m, location) == Lower(m.location) = Lower(location)

SentTo(m, location) ==
    /\ m.transaction_type = "Inter-company transfer"
    /\ m.transfer_to_location # None
    /\ Lower(m.transfer_to_location) = Lower(location)

ClaimedChange(m, location) ==
    IF RecordedAt(m, location)
    THEN IF m.transaction_type = "Inter-company transfer"
         THEN 0 - m.inter_company_transfer_kg
         ELSE m.purchase_kg + m.purchase_direct_shipment_kg - m.sold_kg
              - m.sold_direct_shipment_kg - m.sample_or_damage_kg
    ELSE m.inter_company_transfer_kg

ReplayedAt(rows, location) ==
    LET entries == SortedEntries(list_stock_movements(rows, "P"), location)
    IN  /\ \A i \in 1..Len(entries) :
               /\ RecordedAt(entries[i].m, location) \/ SentTo(entries[i].m, location)
               /\ new_balance(entries, i, location) - current_balance(entries, i)
                      = ClaimedChange(entries[i].m, location)
        /\ \A m \in rows :
               Cardinality({i \in 1..Len(entries) : entries[i].m.id = m.id})
                   = IF RecordedAt(m, location) \/ SentTo(m, location) THEN 1 ELSE 0

C23_ReplayChanges == \A location \in LOCATIONS : ReplayedAt(movements, location)

C23_Witness ==
    /\ lastCall.op = "create" /\ lastCall.status = "ok"
    /\ \E m \in movements :
           /\ RecordedAt(m, "sez_kenya") /\ SentTo(m, "sez_kenya")
           /\ m.sold_kg > 0
    /\ \E m \in movements :
           /\ RecordedAt(m, "addis_ababa")
           /\ m.transaction_type # "Inter-company transfer"
           /\ m.inter_company_transfer_kg > 0
    /\ \E m \in movements :
           /\ RecordedAt(m, "addis_ababa") /\ SentTo(m, "sez_kenya")
           /\ m.purchase_kg > 0

(***************************************************************************)
(* C24: _recalculate_balances is idempotent: a second run for the same     *)
(* (product, location) right after a first one, with no write in between,  *)
(* changes no stored beginning_balance and no stored balance_kg, whatever  *)
(* the stored ledger was before the first run.                             *)
(***************************************************************************)
SecondRunChangesNothing(rows, location) ==
    LET once == _recalculate_balances(rows, "P", location)
    IN  _recalculate_balances(once, "P", location) = once

C24_RecalculateIdempotent ==
    \A location \in LOCATIONS : SecondRunChangesNothing(movements, location)

(***************************************************************************)
(* C25: creating a movement and then deleting that same movement restores  *)
(* the ledger: every other movement of the product has the                 *)
(* beginning_balance and balance_kg it had before the create, also when    *)
(* the created movement was the earliest entry of its location.            *)
(***************************************************************************)
CreatedThenDeleted(rows, body, now) ==
    LET created == CreatedRows(rows, body, now)
        row     == CHOOSE m \in created : m.id = now
    IN  DeletedRows(created, row)

C25_CreateDeleteRestores ==
    clock < MaxMovements =>
        \A body \in OnDates(AddisTemplates) :
            \A m \in movements :
                \E r \in CreatedThenDeleted(movements, body, clock + 1) :
                    /\ r.id = m.id
                    /\ r.beginning_balance = m.beginning_balance
                    /\ r.balance_kg = m.balance_kg

(***************************************************************************)
(* C26: for an Inter-company transfer recorded at A with destination B,    *)
(* recalculating A then B and recalculating B then A leave the same stored *)
(* values on every movement; the transfer row, which both recalculations   *)
(* write, ends with A's values (A's starting balance, and that balance     *)
(* minus the transferred quantity), not with B's running balance.          *)
(***************************************************************************)
TransfersAway(rows) ==
    {m \in rows : /\ IsTransfer(m)
                  /\ m.transfer_to_location # None
                  /\ Lower(m.transfer_to_location) # Lower(m.location)}

OriginValues(rows, m) ==
    LET entries == SortedEntries(list_stock_movements(rows, "P"), m.location)
        i       == CHOOSE k \in 1..Len(entries) : entries[k].m.id = m.id
    IN  [beginning_balance |-> current_balance(entries, i),
         balance_kg |-> WrittenBalance(entries, i, m.location)]

RecalculationOrderIrrelevant(rows, m) ==
    LET A   == m.location
        B   == Lower(m.transfer_to_location)
        AB  == RecalculateAll(rows, "P", <<A, B>>)
        BA  == RecalculateAll(rows, "P", <<B, A>>)
        row == CHOOSE r \in AB : r.id = m.id
    IN  /\ AB = BA
        /\ row.beginning_balance = OriginValues(rows, m).beginning_balance
        /\ row.balance_kg = OriginValues(rows, m).balance_kg

C26_TransferOrderIrrelevant ==
    \A m \in TransfersAway(movements) : RecalculationOrderIrrelevant(movements, m)

(***************************************************************************)
(* The worker loop, run_forever: run_once again and again, each store call *)
(* a step of its own.                                                      *)
(***************************************************************************)
SetWorker(w, worker) == workers' = [workers EXCEPT ![w] = worker]

\* _claim_next_job, step 1: pick a candidate by status, priority and time.
\* With no candidate run_once returns False and the loop sleeps.
SelectCandidate(w) ==
    /\ workers[w].pc = "idle"
    /\ \E j \in Candidates(jobs, utcnow) :
           SetWorker(w, [workers[w] EXCEPT !.pc = "claim", !.row = j,
                                           !.now_iso = utcnow])
    /\ UNCHANGED <<ledger, listing, jobs, utcnow>>

\* _claim_next_job, step 2: the conditional update; without a matching row
\* it returns None.
ClaimJob(w) ==
    LET j == workers[w].row
    IN  /\ workers[w].pc = "claim"
        /\ IF claim_matches(jobs[j])
           THEN /\ jobs' = [jobs EXCEPT ![j] = Claimed(@, w, workers[w].now_iso)]
                /\ SetWorker(w, [workers[w] EXCEPT !.pc = "process", !.job = jobs'[j]])
           ELSE /\ SetWorker(w, IdleWorker)
                /\ UNCHANGED jobs
        /\ UNCHANGED <<ledger, listing, utcnow>>

\* run_once: _process_job(job) returns.
ProcessJob(w) ==
    /\ workers[w].pc = "process"
    /\ SetWorker(w, [workers[w] EXCEPT !.pc = "mark_done"])
    /\ UNCHANGED <<ledger, listing, jobs, utcnow>>

\* run_once: _process_job(job) raises.
ProcessRaises(w) ==
    /\ workers[w].pc = "process"
    /\ SetWorker(w, [workers[w] EXCEPT !.pc = "mark_failed"])
    /\ UNCHANGED <<ledger, listing, jobs, utcnow>>

MarkJobDone(w) ==
    LET job == workers[w].job
    IN  /\ workers[w].pc = "mark_done"
        /\ jobs' = [jobs EXCEPT ![job.id] = MarkedDone(@, job, utcnow)]
        /\ SetWorker(w, IdleWorker)
        /\ UNCHANGED <<ledger, listing, utcnow>>

MarkJobFailed(w) ==
    LET job == workers[w].job
    IN  /\ workers[w].pc = "mark_failed"
        /\ jobs' = [jobs EXCEPT ![job.id] = MarkedFailed(@, job, utcnow)]
        /\ SetWorker(w, IdleWorker)
        /\ UNCHANGED <<ledger, listing, utcnow>>

\* A store call raises and writes nothing: the claiming update and
\* _mark_job_failed raise into run_forever, _mark_job_done raises into the
\* except clause of run_once.
StoreRaises(w) ==
    /\ workers[w].pc \in {"claim", "mark_done", "mark_failed"}
    /\ SetWorker(w, IF workers[w].pc = "mark_done"
                    THEN [workers[w] EXCEPT !.pc = "mark_failed"]
                    ELSE IdleWorker)
    /\ UNCHANGED <<ledger, listing, jobs, utcnow>>

\* Time passes.
Tick ==
    /\ utcnow < MaxTime
    /\ utcnow' = utcnow + 1
    /\ UNCHANGED <<ledger, listing, jobs, workers>>

\* One step of a worker whose store answers.
run_forever(w) ==
    \/ SelectCandidate(w)
    \/ ClaimJob(w)
    \/ ProcessJob(w)
    \/ ProcessRaises(w)
    \/ MarkJobDone(w)
    \/ MarkJobFailed(w)

SpecWorkers ==
    Init /\ [][\/ \E w \in Workers : run_forever(w) \/ StoreRaises(w)
               \/ Tick]_vars

\* The store available, no worker stopping, every worker's loop scheduled.
SpecWorkersFair ==
    /\ Init
    /\ [][(\E w \in Workers : run_forever(w)) \/ Tick]_vars
    /\ \A w \in Workers : WF_vars(run_forever(w))

Next ==
    \/ NextOver(Bodies, UpdateBodies)
    \/ /\ UNCHANGED aside
       /\ \E c \in Callers :
             \/ \E body \in Bodies : BeginCreate(c, body)
             \/ Insert(c)
             \/ \E id \in MovementIds : BeginDelete(c, id)
             \/ Remove(c)
             \/ Fetch(c)
             \/ Write(c)
             \/ StoreFails(c)
    \/ \E l \in Listings : StoreReturns(l)
    \/ SortListing
    \/ ForgetListing
    \/ \E w \in Workers : run_forever(w) \/ StoreRaises(w)
    \/ Tick

Spec == Init /\ [][Next]_vars

(***************************************************************************)
(* C27: with several workers polling the same table, their store calls     *)
(* interleaved, a queued job is claimed by at most one worker per queued   *)
(* period: two workers never hold the same job at once, _claim_next_job    *)
(* returns a job only if that job was 'queued' (never one in 'processing', *)
(* 'done' or 'failed') and no other worker holds it, and a job comes back  *)
(* to 'queued' only with one attempt more counted, so that two claims of   *)
(* one job are never for the same attempt.                                 *)
(***************************************************************************)
Holding(w) == workers[w].pc \in {"process", "mark_done", "mark_failed"}

HeldBy(w, j) == Holding(w) /\ workers[w].job.id = j

Obtains(w, j) ==
    /\ workers[w].pc = "claim"
    /\ workers'[w].pc = "process"
    /\ workers'[w].job.id = j

C27_ClaimedOnce ==
    /\ [](\A w1, w2 \in Workers :
              (w1 # w2 /\ Holding(w1) /\ Holding(w2))
                  => workers[w1].job.id # workers[w2].job.id)
    /\ [][\A j \in JobIds :
              /\ \A w \in Workers :
                     Obtains(w, j) =>
                         /\ jobs[j].status = "queued"
                         /\ jobs'[j].status = "processing"
                         /\ workers'[w].job = jobs'[j]
                         /\ \A o \in Workers : ~HeldBy(o, j)
              /\ (jobs[j].status # "queued" /\ jobs'[j].status = "queued")
                     => /\ jobs[j].status = "processing"
                        /\ attempts_of(jobs'[j]) = attempts_of(jobs[j]) + 1]_vars

C27_Witness ==
    \E w1, w2 \in Workers :
        /\ w1 # w2
        /\ Holding(w1)
        /\ workers[w2].pc = "claim"
        /\ workers[w2].row = workers[w1].job.id
        /\ attempts_of(workers[w1].job) = 1

(***************************************************************************)
(* C28: attempts of a job increases by exactly 1 each time a worker        *)
(* finishes processing it, with success or with failure; a failed attempt  *)
(* sets status 'failed' exactly when the new attempts value is >=          *)
(* max_attempts (3 when the row names none) and otherwise returns the job  *)
(* to 'queued' with its lock cleared; attempts never exceeds max_attempts, *)
(* and a job in status 'done' or 'failed' is never processed again.        *)
(***************************************************************************)
Finished(j) == jobs[j].status = "processing" /\ jobs'[j].status # "processing"

LockCleared(row) == row.locked_at = Null /\ row.locked_by = None

C28_AttemptsCounted ==
    /\ [](\A j \in JobIds :
              /\ attempts_of(jobs[j]) <= max_attempts_of(jobs[j])
              /\ \A w \in Workers : HeldBy(w, j) => jobs[j].status = "processing")
    /\ [][\A j \in JobIds :
              /\ jobs[j].status \in {"done", "failed"} => jobs'[j] = jobs[j]
              /\ attempts_of(jobs'[j]) # attempts_of(jobs[j]) => Finished(j)
              /\ Finished(j) =>
                     /\ attempts_of(jobs'[j]) = attempts_of(jobs[j]) + 1
                     /\ LockCleared(jobs'[j])
                     /\ jobs'[j].status \in {"done", "failed", "queued"}
                     /\ jobs'[j].status = "failed"
                            => attempts_of(jobs'[j]) >= max_attempts_of(jobs[j])
                     /\ jobs'[j].status = "queued"
                            => attempts_of(jobs'[j]) < max_attempts_of(jobs[j])
                     /\ \E w \in Workers :
                            /\ HeldBy(w, j)
                            /\ workers[w].pc = "mark_done" => jobs'[j].status = "done"
                            /\ workers[w].pc = "mark_failed" => jobs'[j].status # "done"]_vars

C28_Witness ==
    \E j, k \in JobIds :
        /\ jobs[j].status = "failed"
        /\ jobs[j].max_attempts = Null
        /\ jobs[j].attempts = default_max_attempts
        /\ jobs[k].status = "queued"
        /\ jobs[k].attempts = 1
        /\ LockCleared(jobs[k])
        /\ jobs[k].error # None

(***************************************************************************)
(* C29: with the store available, no worker stopping between a claim and   *)
(* its mark, and every worker's loop scheduled again and again, every job  *)
(* that is 'queued' with run_after in the past eventually reaches status   *)
(* 'done' or 'failed' with its lock fields cleared, even if every          *)
(* processing attempt raises.                                              *)
(***************************************************************************)
Due(j) == jobs[j].status = "queued" /\ jobs[j].run_after <= utcnow

Settled(j) == jobs[j].status \in {"done", "failed"} /\ LockCleared(jobs[j])

C29_DueJobsSettle == \A j \in JobIds : Due(j) ~> Settled(j)

C29_Witness ==
    \A j \in JobIds :
        /\ jobs[j].status = "failed"
        /\ LockCleared(jobs[j])
        /\ attempts_of(jobs[j]) = max_attempts_of(jobs[j])

====
